---- MODULE Spec2Model ----
(***************************************************************************)
(* State-machine model of the ScaleLegend generator of d3plus-legend       *)
(* (src/src/ScaleLegend.js): the configuration accessors, render() with    *)
(* its two-pass range narrowing, the outer bounds, the orientation-aware   *)
(* positioning helpers and the tick lines it keeps in the container.       *)
(*                                                                         *)
(* Lengths are held in sub-units of a pixel (Sub per pixel) so that the    *)
(* halves of line 146 and the tenths a linear scale over [0, 10] produces  *)
(* are exact integers; Px(n) is n pixels.                                  *)
(***************************************************************************)
EXTENDS Integers, Sequences, FiniteSets, TLC

VARIABLES
  _align, _domain, _height, _orient, _position, _padding, _scale, _select,
  _lineHeight, _textBoxConfig, _tickSize, _ticks, _width,
  _outerBounds, _d3Scale, _lastScale,
  dom,
  lastOp, thrown, returned,
  sets, renders,
  doneScale

\* _align .. _lastScale: the fields of the generator, under their own names
\* dom:       per container, the legend group render() has drawn into it
\* lastOp, thrown, returned: the last call made, what it threw and returned
\* sets, renders: the accessor and render() calls made so far
\* doneScale: history, the final scale of the last render() that returned
settings == <<_align, _domain, _height, _orient, _position, _padding, _scale,
            _textBoxConfig, _tickSize, _ticks, _width>>
drawn  == <<_select, _lineHeight, _outerBounds, _d3Scale, _lastScale, dom>>
ghost  == <<doneScale>>
vars   == <<settings, drawn, lastOp, thrown, returned, sets, renders, ghost>>

----------------------------------------------------------------------------
(* Bounds of the exploration.                                              *)

\* accessor calls explored in one run
MaxSets == 2
\* render() calls explored in one run
MaxRenders == 2
\* advance of one digit, in tenths of the font size (the text measurer)
GlyphTenths == 6

----------------------------------------------------------------------------
(* Units and values.                                                       *)

Sub == 2 * 10
Px(n) == n * Sub

Roles == {"width", "height", "x", "y"}

\* undefined members (this._ticks, this._d3Scale, this._lastScale)
NoTicks == [given |-> FALSE, values |-> <<>>]
Given(l) == [given |-> TRUE, values |-> l]
NoScale == [def |-> FALSE, domain |-> <<0, 0>>, range |-> <<0, 0>>]

AlignVals    == {"start", "middle", "end"}
DomainVals   == {<<0, 10>>, <<10, 0>>, <<0, 0>>}
HeightVals   == {Px(0), Px(100)}
OrientVals   == {"top", "bottom", "left", "right"}
PaddingVals  == {Px(0), Px(5)}
ScaleVals    == {"linear", "spiral"}
SelectVals   == {"el"}
FontSizeVals == {"constant10", "byIndex"}
TickVals     == {Given(<<>>), Given(<<0>>), Given(<<0, 1, 10>>), Given(<<2, 8>>)}
TickSizeVals == {Px(0), Px(5)}
WidthVals    == {Px(0), Px(400)}
\* the objects config(_) is called with; id is no member of the generator
ConfigVals   == {[orient |-> "left", align |-> "end", id |-> 1],
                 [orient |-> "top", align |-> "start", id |-> 1]}

Containers == {"svg"} \cup SelectVals

\* a container with no legend group drawn in it
EmptyGroup == [drawn |-> FALSE, ticks |-> <<>>, exiting |-> {},
               bar |-> <<>>, clip |-> <<>>, text |-> <<>>]

ZeroBounds == [width |-> 0, height |-> 0, x |-> 0, y |-> 0]

----------------------------------------------------------------------------
(* orient(_): the role aliases of lines 290-296.                           *)

\* variant: the aliases of a horizontal legend whatever the orientation
PositionAlwaysHorizontal(o) ==
  [width |-> "width", height |-> "height", x |-> "x", y |-> "y"]

Position(o) ==
  LET horizontal == o \in {"top", "bottom"}
  IN  [width  |-> IF horizontal THEN "width" ELSE "height",
       height |-> IF horizontal THEN "height" ELSE "width",
       x      |-> IF horizontal THEN "x" ELSE "y",
       y      |-> IF horizontal THEN "y" ELSE "x"]

----------------------------------------------------------------------------
(* The constructor, lines 14-34.                                           *)

Init ==
  /\ _align = "middle"
  /\ _domain = <<0, 10>>
  /\ _height = Px(100)
  /\ _orient = "bottom"
  /\ _position = Position("bottom")
  /\ _outerBounds = ZeroBounds
  /\ _padding = Px(5)
  /\ _scale = "linear"
  /\ _textBoxConfig = [fontSize |-> "constant10"]
  /\ _tickSize = Px(5)
  /\ _width = Px(400)
  /\ _ticks = NoTicks
  /\ _select = "undefined"
  /\ _lineHeight = "undefined"
  /\ _d3Scale = NoScale
  /\ _lastScale = NoScale
  /\ dom = [c \in Containers |-> EmptyGroup]
  /\ lastOp = "new"
  /\ thrown = "none"
  /\ returned = "this"
  /\ sets = 0
  /\ renders = 0
  /\ doneScale = NoScale

----------------------------------------------------------------------------
(* The accessors called with a value, lines 244-373.                       *)

\* what every setter call does besides its assignment; a call that passes
\* the value already held changes nothing and is left out
Called ==
  /\ sets < MaxSets
  /\ sets' = sets + 1
  /\ lastOp' = "set"
  /\ thrown' = "none"
  /\ returned' = "this"
  /\ UNCHANGED <<renders, ghost>>

align ==
  \E v \in AlignVals :
    /\ Called
    /\ v # _align
    /\ _align' = v
    /\ UNCHANGED <<_domain, _height, _orient, _position, _padding, _scale,
                   _textBoxConfig, _tickSize, _ticks, _width, drawn>>

domain ==
  \E v \in DomainVals :
    /\ Called
    /\ v # _domain
    /\ _domain' = v
    /\ UNCHANGED <<_align, _height, _orient, _position, _padding, _scale,
                   _textBoxConfig, _tickSize, _ticks, _width, drawn>>

height ==
  \E v \in HeightVals :
    /\ Called
    /\ v # _height
    /\ _height' = v
    /\ UNCHANGED <<_align, _domain, _orient, _position, _padding, _scale,
                   _textBoxConfig, _tickSize, _ticks, _width, drawn>>

orient ==
  \E v \in OrientVals :
    /\ Called
    /\ v # _orient
    /\ _position' = Position(v)
    /\ _orient' = v
    /\ UNCHANGED <<_align, _domain, _height, _padding, _scale,
                   _textBoxConfig, _tickSize, _ticks, _width, drawn>>

\* variant: the padding accessor also moves the outer bounds
paddingTouchesBounds ==
  \E v \in PaddingVals :
    /\ Called
    /\ v # _padding
    /\ _padding' = v
    /\ _outerBounds' = [_outerBounds EXCEPT !.x = v]
    /\ UNCHANGED <<_align, _domain, _height, _orient, _position, _scale,
                   _textBoxConfig, _tickSize, _ticks, _width,
                   _select, _lineHeight, _d3Scale, _lastScale, dom>>

padding ==
  \E v \in PaddingVals :
    /\ Called
    /\ v # _padding
    /\ _padding' = v
    /\ UNCHANGED <<_align, _domain, _height, _orient, _position, _scale,
                   _textBoxConfig, _tickSize, _ticks, _width, drawn>>

scale ==
  \E v \in ScaleVals :
    /\ Called
    /\ v # _scale
    /\ _scale' = v
    /\ UNCHANGED <<_align, _domain, _height, _orient, _position, _padding,
                   _textBoxConfig, _tickSize, _ticks, _width, drawn>>

select ==
  \E v \in SelectVals :
    /\ Called
    /\ v # _select
    /\ _select' = v
    /\ UNCHANGED <<settings, _lineHeight, _outerBounds, _d3Scale, _lastScale, dom>>

textBoxConfig ==
  \E v \in FontSizeVals :
    /\ Called
    /\ v # _textBoxConfig.fontSize
    /\ _textBoxConfig' = [_textBoxConfig EXCEPT !.fontSize = v]
    /\ UNCHANGED <<_align, _domain, _height, _orient, _position, _padding,
                   _scale, _tickSize, _ticks, _width, drawn>>

ticks ==
  \E v \in TickVals :
    /\ Called
    /\ v # _ticks
    /\ _ticks' = v
    /\ UNCHANGED <<_align, _domain, _height, _orient, _position, _padding,
                   _scale, _textBoxConfig, _tickSize, _width, drawn>>

tickSize ==
  \E v \in TickSizeVals :
    /\ Called
    /\ v # _tickSize
    /\ _tickSize' = v
    /\ UNCHANGED <<_align, _domain, _height, _orient, _position, _padding,
                   _scale, _textBoxConfig, _ticks, _width, drawn>>

width ==
  \E v \in WidthVals :
    /\ Called
    /\ v # _width
    /\ _width' = v
    /\ UNCHANGED <<_align, _domain, _height, _orient, _position, _padding,
                   _scale, _textBoxConfig, _tickSize, _ticks, drawn>>

\* what a call without an argument does besides returning
Got(name) ==
  /\ sets < MaxSets
  /\ sets' = sets + 1
  /\ lastOp' = name
  /\ UNCHANGED <<settings, drawn, renders, ghost>>

\* lines 308-310
outerBounds ==
  /\ Got("outerBounds()")
  /\ thrown' = "none"
  /\ returned' = "_outerBounds"

\* the members an instance has: its fields and, inherited, its methods
Members ==
  {"_align", "_domain", "_duration", "_height", "_orient", "_position",
   "_outerBounds", "_padding", "_scale", "_strokeWidth", "_textBoxConfig",
   "_tickSize", "_uuid", "_width", "_ticks", "_select", "_lineHeight",
   "_d3Scale", "_lastScale",
   "render", "align", "config", "domain", "height", "orient", "outerBounds",
   "padding", "scale", "select", "textBoxConfig", "ticks", "tickSize", "width"}

\* lines 258-262: config() reads this.prototype.constructor
configGet ==
  /\ Got("config()")
  /\ IF "prototype" \notin Members
     THEN /\ thrown' = "TypeError"
          /\ returned' = "none"
     ELSE /\ thrown' = "none"
          /\ returned' = "config"

\* lines 254-257: each key that is a member is called with its value
configSet ==
  \E v \in ConfigVals :
    /\ Called
    /\ _position' = IF "orient" \in Members THEN Position(v.orient) ELSE _position
    /\ _orient' = IF "orient" \in Members THEN v.orient ELSE _orient
    /\ _align' = IF "align" \in Members THEN v.align ELSE _align
    /\ "id" \notin Members
    /\ UNCHANGED <<_domain, _height, _padding, _scale,
                   _textBoxConfig, _tickSize, _ticks, _width, drawn>>

----------------------------------------------------------------------------
(* The collaborators render() calls: d3-scale's linear scale and           *)
(* d3plus-text's measurer, as far as lines 108-136 use them.               *)

\* variant: the smaller domain endpoint always maps to range[0]
ScaleAtAscending(s, v) ==
  LET lo  == IF s.domain[1] < s.domain[2] THEN s.domain[1] ELSE s.domain[2]
      hi  == IF s.domain[1] < s.domain[2] THEN s.domain[2] ELSE s.domain[1]
      r0  == s.range[1]
      r1  == s.range[2]
  IN  IF lo = hi THEN r0 ELSE r0 + ((v - lo) * (r1 - r0)) \div (hi - lo)

\* this._d3Scale(v) of a linear scale; a collapsed domain maps to range[0]
ScaleAt(s, v) ==
  LET d0  == s.domain[1]
      d1  == s.domain[2]
      r0  == s.range[1]
      r1  == s.range[2]
      num == (v - d0) * (r1 - r0)
  IN  IF d0 = d1 THEN r0
      ELSE IF d1 > d0 THEN r0 + num \div (d1 - d0)
      ELSE r0 + (0 - num) \div (d0 - d1)

\* this._d3Scale.ticks() of line 112: unit steps over a span of ten
DefaultTicks(dm) ==
  LET d0 == dm[1]
      d1 == dm[2]
  IN  IF d0 = d1 THEN <<d0>>
      ELSE IF d0 < d1 THEN [i \in 1..(d1 - d0 + 1) |-> d0 + i - 1]
      ELSE [i \in 1..(d0 - d1 + 1) |-> d0 - i + 1]

\* this._textBoxConfig.fontSize(d, i), in pixels (i counts from 0)
FontSize(d, i) ==
  IF _textBoxConfig.fontSize = "constant10" THEN 10
  ELSE IF i = 1 THEN 40 ELSE 10

\* digits of the label text of a tick value
NChars(d) == IF d < 10 THEN 1 ELSE 2

\* Math.ceil(max(res.lines.map(textWidth))), line 135: one line, never wrapped
TextWidth(d, i) == Px((NChars(d) * FontSize(d, i) * GlyphTenths + 9) \div 10)

\* Math.ceil(res.lines.length * (lh + 1)) with lh = fontSize * 1.1, lines 98, 136
TextHeight(d, i) == Px((FontSize(d, i) * 11 + 9) \div 10 + 1)

----------------------------------------------------------------------------
(* render(), lines 95-237: the layout.                                     *)

\* this[`_${name}`] for name in {width, height}
Dim(name) == IF name = "width" THEN _width ELSE _height

\* line 112
Values == IF _ticks.given THEN _ticks.values ELSE DefaultTicks(_domain)

\* line 106
Size0(pos) == Dim(pos.width) - _padding * 2

\* variant: the range starts from the one the last render left
StartRangeFromLast(pos) ==
  IF _lastScale.def THEN _lastScale.range
  ELSE <<_padding, _padding + Size0(pos)>>

\* line 110
StartRange(pos) == <<_padding, _padding + Size0(pos)>>

Scale0(pos) == [def |-> TRUE, domain |-> _domain, range |-> StartRange(pos)]

\* numbers that may be NaN (the scale of values[i + 1] past the end)
Num(v) == [nan |-> FALSE, v |-> v]
NaN == [nan |-> TRUE, v |-> 0]
NumSub(a, b) == IF a.nan \/ b.nan THEN NaN ELSE Num(a.v - b.v)
NumGt(a, b) == ~a.nan /\ ~b.nan /\ a.v > b.v

\* values[k] for a JavaScript index k, undefined past the end
ScaleOfIndex(sc, values, k) ==
  IF k < Len(values) THEN Num(ScaleAt(sc, values[k + 1])) ELSE NaN

RECURSIVE SpaceLoop(_, _, _, _)
\* lines 115-118
SpaceLoop(sc, values, i, space) ==
  IF i >= Len(values) THEN space
  ELSE LET s == NumSub(ScaleOfIndex(sc, values, i + 1), ScaleOfIndex(sc, values, i))
       IN  SpaceLoop(sc, values, i + 1, IF NumGt(s, space) THEN s ELSE space)

\* lines 114-119
Space(pos) == NumSub(SpaceLoop(Scale0(pos), Values, 0, Num(0)), Num(_padding))

\* lines 121-139
measureText(d, i) == [width |-> TextWidth(d, i), height |-> TextHeight(d, i)]

\* line 141
textData == [k \in 1..Len(Values) |-> measureText(Values[k], k - 1)]

\* lines 143-144 (called with at least one tick)
firstWidth(pos) == textData[1][pos.width]
lastWidth(pos) == textData[Len(textData)][pos.width]

\* line 146
Size1(pos) == Size0(pos) - (firstWidth(pos) \div 2 + lastWidth(pos) \div 2)

\* variant: the range shrinks but its start is not moved by first/2
FinalRangeUnshifted(pos) ==
  <<StartRange(pos)[1], StartRange(pos)[1] + Size1(pos)>>

\* line 147
FinalRange(pos) ==
  <<StartRange(pos)[1] + firstWidth(pos) \div 2,
    StartRange(pos)[1] + firstWidth(pos) \div 2 + Size1(pos)>>

FinalScale(pos) == [def |-> TRUE, domain |-> _domain, range |-> FinalRange(pos)]

SetMax(S) == CHOOSE m \in S : \A n \in S : n <= m

\* max(textData, t => t[name])
MaxText(name) == SetMax({textData[k][name] : k \in 1..Len(textData)})

\* line 150
BoundsHeight(pos) == _tickSize + MaxText(pos.height) + _padding * 2

\* lines 154-156
BoundsY(pos) ==
  IF _align = "start" THEN _padding
  ELSE IF _align = "end" THEN Dim(pos.height) - BoundsHeight(pos)
  ELSE Dim(pos.height) \div 2 - BoundsHeight(pos) \div 2

\* lines 149-156
OuterBounds(pos) ==
  [k \in Roles |->
     CASE k = pos.height -> BoundsHeight(pos)
       [] k = pos.width  -> Size1(pos)
       [] k = pos.x      -> FinalRange(pos)[1]
       [] OTHER          -> BoundsY(pos)]

----------------------------------------------------------------------------
(* The positioning helpers, lines 42-88.                                   *)

\* a line whose `${x}1`, `${x}2` are a1, a2 and `${y}1`, `${y}2` are b1, b2
Line(pos, a1, a2, b1, b2) ==
  IF pos.x = "x" THEN [x1 |-> a1, x2 |-> a2, y1 |-> b1, y2 |-> b2]
  ELSE [x1 |-> b1, x2 |-> b2, y1 |-> a1, y2 |-> a2]

\* lines 44, 79: the bar edge
BarEdge(o, pos, ob) ==
  IF o \in {"top", "left"} THEN ob[pos.y] + ob[pos.height] ELSE ob[pos.y]

\* lines 42-50
_barPosition(o, pos, ob, sc) ==
  Line(pos, ScaleAt(sc, sc.domain[1]), ScaleAt(sc, sc.domain[2]),
       BarEdge(o, pos, ob), BarEdge(o, pos, ob))

\* this._strokeWidth, line 24
StrokeWidth == Px(1)

\* lines 58-69
_clipPosition(o, pos, ob, sc) ==
  LET p == StrokeWidth
      s == ScaleAt(sc, sc.domain[2]) - ScaleAt(sc, sc.domain[1])
      position == IF o \in {"top", "left"}
                  THEN ob[pos.y] + ob[pos.height] - _tickSize
                  ELSE ob[pos.y]
  IN  [k \in Roles |->
         CASE k = pos.x      -> ScaleAt(sc, sc.domain[1]) - p
           [] k = pos.y      -> position
           [] k = pos.width  -> s + p * 2
           [] OTHER          -> _tickSize + p]

\* variant: entering ticks are placed under the current scale
EnterScaleCurrent(sc, lastSc) == sc

\* line 80: this._lastScale || this._d3Scale
EnterScale(sc, lastSc) == IF lastSc.def THEN lastSc ELSE sc

\* line 81
TickOffset(o) == IF o \in {"top", "left"} THEN 0 - _tickSize ELSE _tickSize

\* lines 77-88, for the tick of value id
_tickPosition(o, pos, ob, sc, lastSc, id, last) ==
  LET position == BarEdge(o, pos, ob)
      s        == IF last THEN EnterScale(sc, lastSc) ELSE sc
  IN  Line(pos, ScaleAt(s, id), ScaleAt(s, id),
           position, IF last THEN position ELSE position + TickOffset(o))

\* lines 209-229: what the text box generator is given
TextBoxes(o, pos, ob, sc) ==
  LET values        == Values
      maxTextHeight == MaxText("height")
      maxTextWidth  == SetMax({textData[k].width + Px(FontSize(values[k], k - 1)) :
                               k \in 1..Len(values)})
  IN  [height |-> maxTextHeight,
       width  |-> maxTextWidth,
       textAnchor |-> IF o = "left" THEN "end"
                      ELSE IF o = "right" THEN "start" ELSE "middle",
       verticalAlign |-> IF o = "bottom" THEN "top"
                         ELSE IF o = "top" THEN "bottom" ELSE "middle",
       x |-> [k \in 1..Len(values) |->
                IF o \in {"top", "bottom"}
                THEN ScaleAt(sc, values[k]) - maxTextWidth \div 2
                ELSE IF o = "left"
                THEN ob.x - Px(FontSize(values[k], k - 1)) \div 2
                ELSE ob.x + _tickSize + _padding],
       y |-> [k \in 1..Len(values) |->
                IF o \in {"left", "right"}
                THEN ScaleAt(sc, values[k]) - maxTextHeight \div 2
                ELSE IF o \in {"right", "bottom"}
                THEN ob.y + _tickSize + _padding
                ELSE ob.y]]

\* lines 158-229: the group of this legend in its container after the joins
Drawn(g, o, pos, ob, sc, lastSc) ==
  LET present == DOMAIN g.ticks
      V       == {Values[k] : k \in 1..Len(Values)}
  IN  [drawn   |-> TRUE,
       clip    |-> _clipPosition(o, pos, ob, sc),
       bar     |-> _barPosition(o, pos, ob, sc),
       exiting |-> present \ V,
       ticks   |-> [id \in present \cup V |->
                      [at    |-> IF id \in present THEN g.ticks[id].at
                                 ELSE _tickPosition(o, pos, ob, sc, lastSc, id, TRUE),
                       to    |-> _tickPosition(o, pos, ob, sc, lastSc, id, FALSE),
                       fresh |-> id \notin present]],
       text    |-> TextBoxes(o, pos, ob, sc)]

----------------------------------------------------------------------------
(* render(), lines 95-237: the call.                                       *)

\* line 97: the container drawn into
Target == IF _select = "undefined" THEN "svg" ELSE _select

\* the scale kinds d3-scale exports a factory for, line 108
KnownScale == _scale = "linear"

Rendering ==
  /\ renders < MaxRenders
  /\ renders' = renders + 1
  /\ lastOp' = "render"
  /\ _select' = Target
  /\ _lineHeight' = "fontSize*1.1"
  /\ UNCHANGED <<settings, sets>>

render ==
  /\ Rendering
  /\ IF ~KnownScale
     THEN \* scales[...] is undefined, line 108
          /\ thrown' = "TypeError"
          /\ returned' = "none"
          /\ UNCHANGED <<_outerBounds, _d3Scale, _lastScale, dom, doneScale>>
     ELSE IF Len(Values) = 0
     THEN \* textData[0] is undefined, line 143
          /\ thrown' = "TypeError"
          /\ returned' = "none"
          /\ _d3Scale' = Scale0(_position)
          /\ UNCHANGED <<_outerBounds, _lastScale, dom, doneScale>>
     ELSE /\ thrown' = "none"
          /\ returned' = "this"
          /\ _d3Scale' = FinalScale(_position)
          /\ _outerBounds' = OuterBounds(_position)
          /\ dom' = [dom EXCEPT ![Target] =
                       Drawn(dom[Target], _orient, _position, _outerBounds',
                             _d3Scale', _lastScale)]
          /\ _lastScale' = _d3Scale'
          /\ doneScale' = FinalScale(_position)

\* the transition of lines 104, 194-207 running to its end
transitionEnd ==
  \E c \in Containers :
    /\ dom[c].drawn
    /\ \/ dom[c].exiting # {}
       \/ \E id \in DOMAIN dom[c].ticks :
            dom[c].ticks[id].at # dom[c].ticks[id].to \/ dom[c].ticks[id].fresh
    /\ dom' = [dom EXCEPT ![c] =
                 [@ EXCEPT !.exiting = {},
                           !.ticks = [id \in DOMAIN @ \ dom[c].exiting |->
                                        [at |-> @[id].to, to |-> @[id].to,
                                         fresh |-> FALSE]]]]
    /\ UNCHANGED <<settings, _select, _lineHeight, _outerBounds, _d3Scale,
                   _lastScale, lastOp, thrown, returned, sets, renders, ghost>>

----------------------------------------------------------------------------
Next ==
  \/ render \/ transitionEnd \/ outerBounds \/ configGet \/ configSet
  \/ align \/ domain \/ height \/ orient \/ padding \/ scale \/ select
  \/ textBoxConfig \/ ticks \/ tickSize \/ width

Spec == Init /\ [][Next]_vars
----------------------------------------------------------------------------
(* Vocabulary of the properties.                                           *)

\* render() was the last call and it returned
Rendered == lastOp = "render" /\ thrown = "none"

Horizontal == _orient \in {"top", "bottom"}

\* the configured container size along and across the value axis
ContainerPrimary == IF Horizontal THEN _width ELSE _height
ContainerSecondary == IF Horizontal THEN _height ELSE _width

\* the outer bounds' size along and across the value axis, and its position
BoundsPrimary == IF Horizontal THEN _outerBounds.width ELSE _outerBounds.height
BoundsSecondary == IF Horizontal THEN _outerBounds.height ELSE _outerBounds.width
BoundsAcross == IF Horizontal THEN _outerBounds.y ELSE _outerBounds.x

\* W of the spec: the container primary size less the padding on both sides
Allotted == ContainerPrimary - 2 * _padding

\* the size of the label of the k-th tick along the value axis
LabelPrimary(k) ==
  IF Horizontal THEN textData[k].width ELSE textData[k].height

\* the group this legend was last drawn into
Group == dom[_select]

\* the coordinate of a tick line along the value axis, and its signed length
LineAlong(l) == IF Horizontal THEN l.x1 ELSE l.y1
LineLength(l) == IF Horizontal THEN l.y2 - l.y1 ELSE l.x2 - l.x1

Opposite(o) ==
  CASE o = "top" -> "bottom" [] o = "bottom" -> "top"
    [] o = "left" -> "right" [] OTHER -> "left"

\* the bar edge of the drawn group, across the value axis
BarAcross(o, bar) == IF o \in {"top", "bottom"} THEN bar.y1 ELSE bar.x1

\* the distance from the bar edge to the edge of the labels that faces it:
\* labels hang below the bar for bottom, stand on their box's bottom for top,
\* start at the box's left for right and end at its right for left
LabelGap(o, bar, text) ==
  CASE o = "bottom" -> text.y[1] - BarAcross(o, bar)
    [] o = "top"    -> BarAcross(o, bar) - (text.y[1] + text.height)
    [] o = "right"  -> text.x[1] - BarAcross(o, bar)
    [] OTHER        -> BarAcross(o, bar) - (text.x[1] + text.width)

\* what render() would draw under orientation o with every other setting kept
LayoutOf(o) ==
  LET pos == Position(o)
      ob  == OuterBounds(pos)
      sc  == FinalScale(pos)
  IN  [range  |-> sc.range,
       bounds |-> ob,
       clip   |-> _clipPosition(o, pos, ob, sc),
       bar    |-> _barPosition(o, pos, ob, sc),
       offset |-> TickOffset(o),
       text   |-> TextBoxes(o, pos, ob, sc)]

----------------------------------------------------------------------------
(* C1: after any render() the outer bounds' size along the value axis is   *)
(* at most the configured container size along that axis, and neither the  *)
(* width nor the height of the outer bounds is negative.                   *)
C1_BoundsWithinContainer ==
  Rendered =>
    /\ BoundsPrimary <= ContainerPrimary
    /\ _outerBounds.width >= 0
    /\ _outerBounds.height >= 0

C3_NoLabelOverflows ==
  Rendered =>
    \A k \in 1..Len(Values) :
      /\ 2 * ScaleAt(_d3Scale, Values[k]) - LabelPrimary(k) >= 2 * _padding
      /\ 2 * ScaleAt(_d3Scale, Values[k]) + LabelPrimary(k)
           <= 2 * (_padding + Allotted)

(* C3, amended: the final range is [padding + first/2, padding + W -       *)
(* last/2]; with distinct domain endpoints, the label of a first tick that *)
(* sits at domain[0] begins exactly at padding and the label of a last     *)
(* tick that sits at domain[1] ends exactly at padding + W.                *)
C3_EdgeLabelsFlush ==
  Rendered =>
    LET n == Len(Values)
    IN  /\ 2 * _d3Scale.range[1] = 2 * _padding + LabelPrimary(1)
        /\ 2 * _d3Scale.range[2] = 2 * (_padding + Allotted) - LabelPrimary(n)
        /\ (_domain[1] # _domain[2] /\ Values[1] = _domain[1]) =>
             2 * ScaleAt(_d3Scale, Values[1]) - LabelPrimary(1) = 2 * _padding
        /\ (_domain[1] # _domain[2] /\ Values[n] = _domain[2]) =>
             2 * ScaleAt(_d3Scale, Values[n]) + LabelPrimary(n)
               = 2 * (_padding + Allotted)

C3_Witness ==
  /\ Rendered
  /\ _ticks = Given(<<0, 1, 10>>)
  /\ _domain = <<0, 10>>
  /\ _d3Scale.range[1] > _padding
  /\ _d3Scale.range[2] < _padding + Allotted

(* C4: a render() called right after a render(), with no accessor called   *)
(* in between, leaves the scale range and the outer bounds as they were:   *)
(* the range is rebuilt from the configuration, not from the last render.  *)
C4_RenderIdempotent ==
  [][(renders' = renders + 1 /\ lastOp = "render") =>
       /\ _d3Scale'.range = _d3Scale.range
       /\ _outerBounds' = _outerBounds]_vars

C4_Witness ==
  /\ Rendered
  /\ renders > 1
  /\ sets = 0
  /\ _d3Scale.range[1] > _padding
  /\ _d3Scale.range[2] > _d3Scale.range[1]

(* C5, as stated: for every domain pair, s(d1) - s(d0) under the final     *)
(* scale has the sign of d1 - d0, and is zero only if d0 = d1.             *)
C5_SignFollowsDomain ==
  Rendered =>
    LET ds == ScaleAt(_d3Scale, _domain[2]) - ScaleAt(_d3Scale, _domain[1])
        dd == _domain[2] - _domain[1]
    IN  /\ (dd > 0) = (ds > 0)
        /\ (dd < 0) = (ds < 0)

(* C5, amended: the final scale maps domain[0] to the start and domain[1]  *)
(* to the end of the narrowed range, so s(d1) - s(d0) is the narrowed span *)
(* W - first/2 - last/2 whatever the order of d0 and d1 (positive exactly  *)
(* when the edge labels fit), and zero when d0 = d1.                       *)
C5_EndpointsSpanRange ==
  Rendered =>
    LET ds == ScaleAt(_d3Scale, _domain[2]) - ScaleAt(_d3Scale, _domain[1])
        n  == Len(Values)
    IN  /\ ScaleAt(_d3Scale, _domain[1]) = _d3Scale.range[1]
        /\ _domain[1] # _domain[2] =>
             2 * ds = 2 * Allotted - LabelPrimary(1) - LabelPrimary(n)
        /\ _domain[1] = _domain[2] => ds = 0

C5_Witness ==
  /\ Rendered
  /\ _domain = <<10, 0>>
  /\ ScaleAt(_d3Scale, 0) > ScaleAt(_d3Scale, 10)

(* C6: with an explicit tick list of fewer than two values render()        *)
(* completes: the spacing budget and the first and last label are found    *)
(* without an error, and no NaN reaches the range or the outer bounds.     *)
C6_FewTicksRender ==
  (lastOp = "render" /\ KnownScale /\ _ticks.given /\ Len(_ticks.values) < 2) =>
    /\ thrown = "none"
    /\ ~Space(_position).nan

(* C7: until the first render() the outer bounds are the zeroed box,       *)
(* whatever accessors have been called.                                    *)
C7_ZeroBeforeRender ==
  renders = 0 => _outerBounds = ZeroBounds

C7_Witness ==
  /\ renders = 0
  /\ _padding = Px(0)
  /\ lastOp = "outerBounds()"
  /\ returned = "_outerBounds"

(* C8: config() with no argument returns the current configuration and     *)
(* does not throw.                                                         *)
C8_ConfigGetReturns ==
  lastOp = "config()" => (thrown = "none" /\ returned = "config")

(* C9: rendering under the opposite orientation (top for bottom, left for  *)
(* right) with everything else kept gives the same range, outer bounds and *)
(* clip size and the same distance from the bar edge to the labels; only   *)
(* the tick offset changes sign and the bar edge changes side.             *)
C9_OrientationSymmetry ==
  Rendered =>
    LET o     == _orient
        m     == Opposite(o)
        other == LayoutOf(m)
        sec   == IF Horizontal THEN "height" ELSE "width"
        at    == IF Horizontal THEN "y" ELSE "x"
    IN  /\ other.range = _d3Scale.range
        /\ other.bounds = _outerBounds
        /\ other.clip.width = Group.clip.width
        /\ other.clip.height = Group.clip.height
        /\ other.offset = 0 - TickOffset(o)
        /\ {BarAcross(o, Group.bar), BarAcross(m, other.bar)}
             = {_outerBounds[at], _outerBounds[at] + _outerBounds[sec]}
        /\ LabelGap(m, other.bar, other.text)
             = LabelGap(o, Group.bar, Group.text)

(* C10: a tick that enters in a render() is first placed, with no length,  *)
(* where the final scale of the last completed render() puts it (the       *)
(* current scale when there was none), and its transition ends where the   *)
(* current final scale puts it, with the full tick length; the render      *)
(* stores its final scale as the last scale.                               *)
C10_EnterFromLastScale ==
  [][(renders' = renders + 1 /\ thrown' = "none") =>
       LET g    == dom'[_select']
           from == IF doneScale.def THEN doneScale ELSE _d3Scale'
       IN  /\ \A k \in 1..Len(Values) :
                g.ticks[Values[k]].fresh = (Values[k] \notin DOMAIN dom[_select'].ticks)
           /\ \A id \in DOMAIN g.ticks :
                g.ticks[id].fresh =>
                  /\ LineAlong(g.ticks[id].at) = ScaleAt(from, id)
                  /\ LineLength(g.ticks[id].at) = 0
                  /\ LineAlong(g.ticks[id].to) = ScaleAt(_d3Scale', id)
                  /\ LineLength(g.ticks[id].to)
                       = IF _orient \in {"top", "left"} THEN 0 - _tickSize
                         ELSE _tickSize
           /\ _lastScale' = _d3Scale'
           /\ 2 * _d3Scale'.range[1] = 2 * _padding + LabelPrimary(1)]_vars

C10_Witness ==
  /\ Rendered
  /\ renders > 1
  /\ \E id \in DOMAIN Group.ticks :
       /\ Group.ticks[id].fresh
       /\ LineAlong(Group.ticks[id].at) # LineAlong(Group.ticks[id].to)
       /\ LineLength(Group.ticks[id].to) # 0
====
